---- MODULE Spec2Model ----
(***************************************************************************)
(* Model of step_to_meshes.py (FreeCAD + meshlabserver mesh pipeline).     *)
(*                                                                         *)
(* Four specifications:                                                    *)
(*   Spec      the script's __main__ block: the loop over doc.Objects      *)
(*   SpecApi   one call of a module-level function (followed, for          *)
(*             placement2csv, by csv2placement on the file it wrote)       *)
(*   SpecDedup get_unique_objects applied to a document                    *)
(*   SpecEncode transform_to_xyz_angle_axis of step_to_meshes_fusion360.py *)
(*             applied to a transform                                      *)
(*                                                                         *)
(* Conventions.  A path is <<folder, file>>, the pair os.path.split        *)
(* returns; a folder is the tuple of its components, <<>> being the empty  *)
(* string.  None is the empty tuple.  A FreeCAD.Placement is a translation *)
(* Base and a rotation about the z axis by rot quarter turns, so that      *)
(* inverse and multiply are exact on integers.  An exception is the name   *)
(* of its class, "none" meaning that the call returned.                    *)
(***************************************************************************)
EXTENDS Integers, Sequences, FiniteSets, TLC

VARIABLES
    doc,        \* doc.Objects: sequence of [Label, Placement, Shape]
    dirs,       \* directories that exist
    files,      \* mesh files (and properties.json) that exist
    csv,        \* placement csv files: path -> sequence of rows
    log,        \* meshlabserver invocations so far, in order
    pc,         \* where the running script or harness is
    args,       \* argparse result of __main__
    idx,        \* position of the for loop of __main__ in doc.Objects
    obj_found,  \* __main__'s dict: Label -> count
    locals,     \* __main__'s stl_path, simple_path, chull_path
    stages,     \* history: the stages __main__ has run, in order
    envFail,    \* history: the environment (makedirs, export, engine) has failed
    last,       \* harness: the call made, its arguments and its outcome
    doc0        \* history: the document as it was read

vars == <<doc, dirs, files, csv, log, pc, args, idx, obj_found, locals, stages, envFail, last, doc0>>

----------------------------------------------------------------------------
(* Bounds *)

MaxCoord == 1
MaxObjs == 2
MaxIter == 3
MaxGeom == 2
MaxList == 2
MaxDoc == 3
MaxTurns == 2

----------------------------------------------------------------------------
(* Values *)

None == <<>>

Labels == {"A", "B", "C"}

\* FreeCAD.Placement restricted to rotations about z by quarter turns.
Placements == {[Base |-> <<x, 0, 0>>, rot |-> r] : x \in 0..MaxCoord, r \in 0..1}

\* FreeCAD.Placement(): the identity.
Identity == [Base |-> <<0, 0, 0>>, rot |-> 0]

\* Rotation of vector v about z by k quarter turns.
Rot(k, v) ==
    CASE k % 4 = 0 -> v
      [] k % 4 = 1 -> <<0 - v[2], v[1], v[3]>>
      [] k % 4 = 2 -> <<0 - v[1], 0 - v[2], v[3]>>
      [] OTHER     -> <<v[2], 0 - v[1], v[3]>>

\* Placement.inverse()
inverse(p) ==
    [Base |-> Rot(4 - (p.rot % 4), <<0 - p.Base[1], 0 - p.Base[2], 0 - p.Base[3]>>),
     rot  |-> (4 - (p.rot % 4)) % 4]

\* a.multiply(b)
multiply(a, b) ==
    LET r == Rot(a.rot, b.Base)
    IN  [Base |-> <<a.Base[1] + r[1], a.Base[2] + r[2], a.Base[3] + r[3]>>,
         rot  |-> (a.rot + b.rot) % 4]

Objects == [Label : Labels, Placement : Placements, Shape : 1..MaxGeom]

RECURSIVE SeqsUpTo(_, _)
SeqsUpTo(S, n) ==
    IF n = 0 THEN {<<>>}
    ELSE LET shorter == SeqsUpTo(S, n - 1)
         IN  shorter \cup {Append(s, x) : s \in {t \in shorter : Len(t) = n - 1}, x \in S}

\* os.path.join(folder, file) / os.path.split(path)
Path(folder, file) == <<folder, file>>
Folder(p) == p[1]

\* os.path.join("./meshes/", Label)
MeshFolder(label) == <<"./meshes", label>>

\* os.path.exists(folder): the empty string names nothing.
Exists(ds, folder) == folder # <<>> /\ folder \in ds

\* os.makedirs(folder): the folder and every missing parent.
MakeDirs(ds, folder) == ds \cup {SubSeq(folder, 1, k) : k \in 1..Len(folder)}

\* The world the functions act on.
World == [doc |-> doc, dirs |-> dirs, files |-> files, csv |-> csv, log |-> log]

Raise(w, e) == [w |-> w, exc |-> e, ret |-> None]
Return(w, v) == [w |-> w, exc |-> "none", ret |-> v]

\* Frame argument of make_STL / make_OBJ: "local", "" or a FreeCAD.Placement.
FrameModes ==
    {[mode |-> "local", pl |-> Identity], [mode |-> "global", pl |-> Identity]}
    \cup {[mode |-> "explicit", pl |-> p] : p \in Placements}

----------------------------------------------------------------------------
(* placement2csv / csv2placement *)

Cos(k) == <<1, 0, -1, 0>>[(k % 4) + 1]
Sin(k) == <<0, 1, 0, -1>>[(k % 4) + 1]

\* The eight rows placement2csv writes for one placement.  Angle is in quarter
\* turns; the axis of every modelled rotation is z.
PlacementRows(pl) ==
    << <<"Placement">>,
       <<"Base", pl.Base[1], pl.Base[2], pl.Base[3]>>,
       <<"Axis", 0, 0, 1>>,
       <<"Angle", pl.rot>>,
       <<"Matrixr1", Cos(pl.rot), 0 - Sin(pl.rot), 0, pl.Base[1]>>,
       <<"Matrixr2", Sin(pl.rot), Cos(pl.rot), 0, pl.Base[2]>>,
       <<"Matrixr3", 0, 0, 1, pl.Base[3]>>,
       <<"Matrixr4", 0, 0, 0, 1>> >>

RECURSIVE AllRows(_)
AllRows(placements) ==
    IF placements = <<>> THEN <<>>
    ELSE PlacementRows(Head(placements)) \o AllRows(Tail(placements))

\* open(csvfilename, writingmode) followed by the writes: "wb" truncates, "ab" appends.
WriteCsv(c, path, rows, writingmode) ==
    [p \in DOMAIN c \cup {path} |->
        IF p = path
        THEN (IF writingmode = "ab" /\ path \in DOMAIN c THEN c[path] ELSE <<>>) \o rows
        ELSE c[p]]

\* placement2csv(placements, csvfilename, writingmode): placements is the list
\* (a single Placement is wrapped into one by lines 148-149).
placement2csv(w, placements, csvfilename, writingmode, mkdirOk) ==
    LET odir == Folder(csvfilename)
    IN  IF ~Exists(w.dirs, odir) /\ (odir = <<>> \/ ~mkdirOk)
        THEN Raise(w, "OSError")
        ELSE Return([w EXCEPT !.dirs = MakeDirs(w.dirs, odir),
                              !.csv = WriteCsv(w.csv, csvfilename, AllRows(placements), writingmode)],
                    csvfilename)

\* The loop of csv2placement over the rows read; acc = [exc, placements].
RECURSIVE ReadRows(_, _)
ReadRows(rows, acc) ==
    IF rows = <<>> \/ acc.exc # "none" THEN acc
    ELSE LET row == Head(rows)
             n   == Len(acc.placements)
         IN  IF row[1] = "Placement_Index"
             THEN ReadRows(Tail(rows), [acc EXCEPT !.placements = Append(@, Identity)])
             ELSE IF row[1] \in {"Base", "Axis", "Angle"}
             THEN IF n = 0
                  THEN [acc EXCEPT !.exc = "IndexError"]
                  ELSE ReadRows(Tail(rows),
                         [acc EXCEPT !.placements[n] =
                            CASE row[1] = "Base"  -> [@ EXCEPT !.Base = <<row[2], row[3], row[4]>>]
                              [] row[1] = "Angle" -> [@ EXCEPT !.rot = row[2]]
                              [] OTHER            -> @])
             ELSE ReadRows(Tail(rows), acc)

\* csv2placement(csvfilename)
csv2placement(w, csvfilename) ==
    IF csvfilename \notin DOMAIN w.csv
    THEN Raise(w, "IOError")
    ELSE LET r == ReadRows(w.csv[csvfilename], [exc |-> "none", placements |-> <<>>])
         IN  IF r.exc # "none" THEN Raise(w, r.exc) ELSE Return(w, r.placements)

----------------------------------------------------------------------------
(* run_script_on_mesh, make_simplified_STL, make_convex_hull *)

ExitCodes == {0, 1}

SimplifyScript == "./simplifymesh.mlx"
ChullScript == "./chull.mlx"

\* One meshlabserver process: it is logged, and writes its output when it exits 0.
Engine(w, imesh_path, script_path, omesh_path, verbose, code) ==
    [w EXCEPT !.log = Append(@, [i |-> imesh_path, s |-> script_path, o |-> omesh_path,
                                 verbose |-> verbose, code |-> code]),
              !.files = IF code = 0 THEN @ \cup {omesh_path} ELSE @]

\* run_script_on_mesh(imesh_path, script_path, omesh_path, verbose=verbose)
run_script_on_mesh(w, imesh_path, script_path, omesh_path, verbose, mkdirOk, code) ==
    IF omesh_path = None
    THEN Raise(w, "AttributeError")                       \* os.join does not exist
    ELSE LET omeshfolder_path == Folder(omesh_path)
         IN  IF ~Exists(w.dirs, omeshfolder_path) /\ (omeshfolder_path = <<>> \/ ~mkdirOk)
             THEN Raise(w, "OSError")
             ELSE LET w1 == [w EXCEPT !.dirs = MakeDirs(@, omeshfolder_path)]
                      w2 == Engine(w1, imesh_path, script_path, omesh_path, verbose, code)
                  IN  IF verbose /\ code # 0
                      THEN Raise(w2, "CalledProcessError")   \* subprocess.check_output
                      ELSE Return(w2, None)                  \* subprocess.call: code dropped

\* for i in xrange(1, n_iterations): the invocations after the first; r is the
\* outcome so far, codes[i + 1] the exit code of the engine in iteration i.
RECURSIVE SimplifyLoop(_, _, _, _, _, _, _, _)
SimplifyLoop(r, i, n_iterations, script_path, omesh_path, verbose, mkdirOk, codes) ==
    IF r.exc # "none" \/ i >= n_iterations THEN r
    ELSE SimplifyLoop(run_script_on_mesh(r.w, omesh_path, script_path, omesh_path,
                                         verbose, mkdirOk, codes[i + 1]),
                      i + 1, n_iterations, script_path, omesh_path, verbose, mkdirOk, codes)

\* make_simplified_STL with the fault of a loop over xrange(0, n_iterations).
make_simplified_STL_one_more(w, imesh_path, script_path, omesh_path, n_iterations, verbose, mkdirOk, codes) ==
    LET out   == IF omesh_path = None THEN Path(Folder(imesh_path), "simple.stl") ELSE omesh_path
        first == run_script_on_mesh(w, imesh_path, script_path, out, FALSE, mkdirOk, codes[1])
    IN  IF first.exc # "none" THEN first
        ELSE IF n_iterations = None THEN Raise(first.w, "TypeError")
        ELSE LET r == SimplifyLoop(first, 0, n_iterations[1], script_path, out, verbose, mkdirOk, codes)
             IN  IF r.exc # "none" THEN r ELSE Return(r.w, out)

\* make_simplified_STL(imesh_path, script_path, omesh_path, n_iterations, verbose);
\* n_iterations is None or <<n>>.
make_simplified_STL(w, imesh_path, script_path, omesh_path, n_iterations, verbose, mkdirOk, codes) ==
    LET out   == IF omesh_path = None THEN Path(Folder(imesh_path), "simple.stl") ELSE omesh_path
        first == run_script_on_mesh(w, imesh_path, script_path, out, FALSE, mkdirOk, codes[1])
    IN  IF first.exc # "none" THEN first
        ELSE IF n_iterations = None THEN Raise(first.w, "TypeError")   \* xrange(1, None)
        ELSE LET r == SimplifyLoop(first, 1, n_iterations[1], script_path, out, verbose, mkdirOk, codes)
             IN  IF r.exc # "none" THEN r ELSE Return(r.w, out)

\* make_convex_hull(imesh_path, script_path, omesh_path, verbose)
make_convex_hull(w, imesh_path, script_path, omesh_path, verbose, mkdirOk, code) ==
    LET out == IF omesh_path = None THEN Path(Folder(imesh_path), "chull.stl") ELSE omesh_path
        r   == run_script_on_mesh(w, imesh_path, script_path, out, verbose, mkdirOk, code)
    IN  IF r.exc # "none" THEN r ELSE Return(r.w, out)

----------------------------------------------------------------------------
(* make_STL, make_OBJ *)

\* make_STL(obj, omesh_path, placement) on obj = doc.Objects[k].  `placement is
\* "local"` holds for the literal "local" (CPython interns it): mode = "local".
make_STL(w, k, omesh_path, placement, mkdirOk, exportOk) ==
    IF omesh_path # None
    THEN Raise(w, "AttributeError")                       \* os.split does not exist
    ELSE LET obj == w.doc[k]
             omeshfolder_path == MeshFolder(obj.Label)
             out == Path(omeshfolder_path, "full.stl")
         IN  IF ~Exists(w.dirs, omeshfolder_path) /\ ~mkdirOk
             THEN Raise(w, "OSError")
             ELSE LET w1 == [w EXCEPT !.dirs = MakeDirs(@, omeshfolder_path)]
                      prev_pl == obj.Placement
                      w2 == CASE placement.mode = "local" ->
                                   [w1 EXCEPT !.doc[k].Placement = multiply(inverse(prev_pl), prev_pl)]
                              [] placement.mode = "explicit" ->
                                   placement2csv([w1 EXCEPT !.doc[k].Placement = placement.pl],
                                                 <<placement.pl>>,
                                                 Path(omeshfolder_path, "newplacement.csv"),
                                                 "wb", TRUE).w
                              [] OTHER -> w1
                  IN  IF ~exportOk
                      THEN Raise(w2, "ExportError")               \* Mesh.export raises
                      ELSE LET w3 == [w2 EXCEPT !.files = @ \cup {out}]
                           IN  IF placement.mode = "local"
                               THEN Return([w3 EXCEPT !.doc[k].Placement = prev_pl], out)
                               ELSE Raise(w3, "UnboundLocalError")   \* prev_pl was never bound

\* make_OBJ(obj, omesh_path, placement) on obj = doc.Objects[k]
make_OBJ(w, k, omesh_path, placement, mkdirOk, exportOk) ==
    IF omesh_path # None
    THEN Raise(w, "AttributeError")                       \* os.split does not exist
    ELSE LET obj == w.doc[k]
             omeshfolder_path == MeshFolder(obj.Label)
             out == Path(omeshfolder_path, "full.stl")
         IN  IF ~Exists(w.dirs, omeshfolder_path) /\ ~mkdirOk
             THEN Raise(w, "OSError")
             ELSE LET w1 == [w EXCEPT !.dirs = MakeDirs(@, omeshfolder_path)]
                      w2 == CASE placement.mode = "local" ->
                                   [w1 EXCEPT !.doc[k].Placement =
                                        multiply(inverse(obj.Placement), obj.Placement)]
                              [] placement.mode = "explicit" ->
                                   [w1 EXCEPT !.doc[k].Placement = placement.pl]
                              [] OTHER -> w1
                  IN  IF ~exportOk
                      THEN Raise(w2, "ExportError")               \* exportObj raises
                      ELSE Return([w2 EXCEPT !.files = @ \cup {out}], out)

----------------------------------------------------------------------------
(* get_unique_objects *)

\* The labels of a list of objects: (o.Label for o in unique_objects)
LabelsOf(objs) == {objs[i].Label : i \in 1..Len(objs)}

\* The loop of get_unique_objects from position i on.
RECURSIVE UniqueFrom(_, _, _)
UniqueFrom(objs, i, unique_objects) ==
    IF i > Len(objs) THEN unique_objects
    ELSE UniqueFrom(objs, i + 1,
                    IF objs[i].Label \notin LabelsOf(unique_objects)
                    THEN Append(unique_objects, objs[i])
                    ELSE unique_objects)

\* get_unique_objects with the fault of comparing the geometry instead of the Label.
RECURSIVE UniqueByShapeFrom(_, _, _)
UniqueByShapeFrom(objs, i, unique_objects) ==
    IF i > Len(objs) THEN unique_objects
    ELSE UniqueByShapeFrom(objs, i + 1,
                    IF objs[i].Shape \notin {unique_objects[k].Shape : k \in 1..Len(unique_objects)}
                    THEN Append(unique_objects, objs[i])
                    ELSE unique_objects)

get_unique_objects_by_shape(objs) == UniqueByShapeFrom(objs, 1, <<>>)

\* get_unique_objects(fc_doc)
get_unique_objects(objs) == UniqueFrom(objs, 1, <<>>)

----------------------------------------------------------------------------
(* SpecApi: one call of a module-level function *)

\* The state after a call that ended as r.
Apply(r) ==
    /\ doc' = r.w.doc
    /\ dirs' = r.w.dirs
    /\ files' = r.w.files
    /\ csv' = r.w.csv
    /\ log' = r.w.log

NoArgs == [n |-> None]
NoCall == [fn |-> "none", a |-> NoArgs, before |-> None, exc |-> "none", ret |-> None]

Called(fn, a, r) == [fn |-> fn, a |-> a, before |-> World, exc |-> r.exc, ret |-> r.ret]

MainIdle == <<args, idx, obj_found, locals, stages, doc0>>

\* The paths the harness passes as mesh paths.
ApiPaths == {Path(f, n) : f \in {MeshFolder("A"), <<>>}, n \in {"full.stl", "simple.stl", "chull.stl"}}

Iterations == {None} \cup {<<n>> : n \in -1..MaxIter}

InitApi ==
    /\ doc \in {<<o>> : o \in Objects}
    /\ dirs \in {{}, MakeDirs({}, MeshFolder("A"))}
    /\ files = {}
    /\ csv = <<>>
    /\ log = <<>>
    /\ pc = "idle"
    /\ args = None
    /\ idx = 0
    /\ obj_found = <<>>
    /\ locals = None
    /\ stages = <<>>
    /\ envFail = FALSE
    /\ last = NoCall
    /\ doc0 = doc

CallMakeSTL ==
    /\ pc = "idle"
    /\ \E omesh_path \in {None, Path(MeshFolder("A"), "part.stl")}, placement \in FrameModes,
          mkdirOk \in BOOLEAN, exportOk \in BOOLEAN :
         LET r == make_STL(World, 1, omesh_path, placement, mkdirOk, exportOk)
         IN  /\ Apply(r)
             /\ last' = Called("make_STL", [omesh_path |-> omesh_path, placement |-> placement], r)
             /\ envFail' = (r.exc \in {"OSError", "ExportError"})
    /\ pc' = "returned"
    /\ UNCHANGED MainIdle

CallMakeOBJ ==
    /\ pc = "idle"
    /\ \E omesh_path \in {None, Path(MeshFolder("A"), "part.obj")}, placement \in FrameModes,
          mkdirOk \in BOOLEAN, exportOk \in BOOLEAN :
         LET r == make_OBJ(World, 1, omesh_path, placement, mkdirOk, exportOk)
         IN  /\ Apply(r)
             /\ last' = Called("make_OBJ", [omesh_path |-> omesh_path, placement |-> placement], r)
             /\ envFail' = (r.exc \in {"OSError", "ExportError"})
    /\ pc' = "returned"
    /\ UNCHANGED MainIdle

EngineFailed(r) == \E i \in 1..Len(r.w.log) : r.w.log[i].code # 0

CallRunScript ==
    /\ pc = "idle"
    /\ \E imesh_path \in ApiPaths, omesh_path \in {None} \cup ApiPaths,
          verbose \in BOOLEAN, mkdirOk \in BOOLEAN, code \in ExitCodes :
         LET r == run_script_on_mesh(World, imesh_path, SimplifyScript, omesh_path, verbose, mkdirOk, code)
         IN  /\ Apply(r)
             /\ last' = Called("run_script_on_mesh",
                               [imesh_path |-> imesh_path, omesh_path |-> omesh_path,
                                verbose |-> verbose], r)
             /\ envFail' = (r.exc = "OSError" \/ EngineFailed(r))
    /\ pc' = "returned"
    /\ UNCHANGED MainIdle

CallSimplify ==
    /\ pc = "idle"
    /\ \E imesh_path \in ApiPaths, omesh_path \in {None} \cup ApiPaths, n \in Iterations,
          verbose \in BOOLEAN, mkdirOk \in BOOLEAN, codes \in [1..(MaxIter + 1) -> ExitCodes] :
         LET r == make_simplified_STL(World, imesh_path, SimplifyScript, omesh_path, n,
                                      verbose, mkdirOk, codes)
         IN  /\ Apply(r)
             /\ last' = Called("make_simplified_STL",
                               [imesh_path |-> imesh_path, omesh_path |-> omesh_path,
                                n |-> n, verbose |-> verbose], r)
             /\ envFail' = (r.exc = "OSError" \/ EngineFailed(r))
    /\ pc' = "returned"
    /\ UNCHANGED MainIdle

CallConvexHull ==
    /\ pc = "idle"
    /\ \E imesh_path \in ApiPaths, omesh_path \in {None} \cup ApiPaths,
          verbose \in BOOLEAN, mkdirOk \in BOOLEAN, code \in ExitCodes :
         LET r == make_convex_hull(World, imesh_path, ChullScript, omesh_path, verbose, mkdirOk, code)
         IN  /\ Apply(r)
             /\ last' = Called("make_convex_hull",
                               [imesh_path |-> imesh_path, omesh_path |-> omesh_path,
                                verbose |-> verbose], r)
             /\ envFail' = (r.exc = "OSError" \/ EngineFailed(r))
    /\ pc' = "returned"
    /\ UNCHANGED MainIdle

CallPlacement2csv ==
    /\ pc = "idle"
    /\ \E placements \in SeqsUpTo(Placements, MaxList), writingmode \in {"wb", "ab"},
          mkdirOk \in BOOLEAN :
         LET r == placement2csv(World, placements, Path(MeshFolder("A"), "placement.csv"),
                               writingmode, mkdirOk)
         IN  /\ Apply(r)
             /\ last' = Called("placement2csv",
                               [placements |-> placements, writingmode |-> writingmode], r)
             /\ envFail' = (r.exc = "OSError")
             /\ pc' = IF r.exc = "none" THEN "written" ELSE "returned"
    /\ UNCHANGED MainIdle

\* csv2placement on the file placement2csv has just returned.
CallCsv2placement ==
    /\ pc = "written"
    /\ LET r == csv2placement(World, last.ret)
       IN  /\ Apply(r)
           /\ last' = Called("csv2placement",
                             [csvfilename |-> last.ret, written |-> last.a.placements], r)
    /\ pc' = "returned"
    /\ UNCHANGED <<MainIdle, envFail>>

NextApi ==
    \/ CallMakeSTL
    \/ CallMakeOBJ
    \/ CallRunScript
    \/ CallSimplify
    \/ CallConvexHull
    \/ CallPlacement2csv
    \/ CallCsv2placement

SpecApi == InitApi /\ [][NextApi]_vars

----------------------------------------------------------------------------
(* Spec: the __main__ block *)

\* __main__ never reads the geometry: its documents differ in Labels and Placements.
Docs == SeqsUpTo([Label : Labels, Placement : Placements, Shape : {1}], MaxObjs)

\* parser.parse_args(): -partlocalframe, -nsimplify (default 10), -nchull (no default: None)
Args == [partlocalframe : BOOLEAN, nsimplify : 0..MaxIter, nchull : Iterations]

\* placement = "local" if args.partlocalframe else ""
MainPlacement == [mode |-> IF args.partlocalframe THEN "local" ELSE "global", pl |-> Identity]

Init ==
    /\ doc \in Docs
    /\ args \in Args
    /\ dirs \in {{}, MakeDirs({}, MeshFolder("A"))}
    /\ files = {}
    /\ csv = <<>>
    /\ log = <<>>
    /\ pc = "loop"
    /\ idx = 1
    /\ obj_found = <<>>
    /\ locals = [stl_path |-> None, simple_path |-> None, chull_path |-> None]
    /\ stages = <<>>
    /\ envFail = FALSE
    /\ last = NoCall
    /\ doc0 = doc

\* The statement at pc ended as r: go on to `next`, or die of the exception.
Step(stage, r, next) ==
    /\ Apply(r)
    /\ stages' = Append(stages, [label |-> doc[idx].Label, stage |-> stage, exc |-> r.exc])
    /\ pc' = IF r.exc = "none" THEN next ELSE "crashed"

\* line 272: stl_path = make_STL(obj, placement = placement), for an obj whose
\* Label is not yet a key of obj_found
ExportFull ==
    /\ pc = "loop"
    /\ idx <= Len(doc)
    /\ doc[idx].Label \notin DOMAIN obj_found
    /\ \E mkdirOk \in BOOLEAN, exportOk \in BOOLEAN :
         LET r == make_STL(World, idx, None, MainPlacement, mkdirOk, exportOk)
         IN  /\ Step("ExportFull", r, "simplify")
             /\ locals' = [locals EXCEPT !.stl_path = r.ret]
             /\ envFail' = (envFail \/ r.exc \in {"OSError", "ExportError"})
    /\ UNCHANGED <<args, idx, obj_found, last, doc0>>

\* lines 273-274: simple_path = make_simplified_STL(stl_path, n_iterations = args.nsimplify)
SimplifyFull ==
    /\ pc = "simplify"
    /\ \E codes \in [1..(MaxIter + 1) -> ExitCodes] :
         LET r == make_simplified_STL(World, locals.stl_path, SimplifyScript, None,
                                      <<args.nsimplify>>, FALSE, TRUE, codes)
         IN  /\ Step("SimplifyFull", r, "chull")
             /\ locals' = [locals EXCEPT !.simple_path = r.ret]
             /\ envFail' = (envFail \/ EngineFailed(r))
    /\ UNCHANGED <<args, idx, obj_found, last, doc0>>

\* lines 275-276: chull_path = make_convex_hull(stl_path, verbose=False)
ConvexHull ==
    /\ pc = "chull"
    /\ \E code \in ExitCodes :
         LET r == make_convex_hull(World, locals.stl_path, ChullScript, None, FALSE, TRUE, code)
         IN  /\ Step("ConvexHull", r, "simplify_chull")
             /\ locals' = [locals EXCEPT !.chull_path = r.ret]
             /\ envFail' = (envFail \/ EngineFailed(r))
    /\ UNCHANGED <<args, idx, obj_found, last, doc0>>

\* lines 277-279: make_simplified_STL(chull_path, omesh_path = chull_path,
\*                                    n_iterations = args.nchull)
SimplifyHull ==
    /\ pc = "simplify_chull"
    /\ \E codes \in [1..(MaxIter + 1) -> ExitCodes] :
         LET r == make_simplified_STL(World, locals.chull_path, SimplifyScript, locals.chull_path,
                                      args.nchull, FALSE, TRUE, codes)
         IN  /\ Step("SimplifyHull", r, "props")
             /\ envFail' = (envFail \/ EngineFailed(r))
    /\ UNCHANGED <<args, idx, obj_found, locals, last, doc0>>

\* lines 280-285: obj_found[obj.Label] = 0; obj.Placement = FreeCAD.Placement();
\* properties.json is opened for appending, and partprops.writerow, which a file
\* does not have, raises AttributeError.
WriteProperties ==
    /\ pc = "props"
    /\ obj_found' = [l \in DOMAIN obj_found \cup {doc[idx].Label} |->
                        IF l = doc[idx].Label THEN 0 ELSE obj_found[l]]
    /\ doc' = [doc EXCEPT ![idx].Placement = Identity]
    /\ files' = files \cup {Path(MeshFolder(doc[idx].Label), "properties.json")}
    /\ stages' = Append(stages, [label |-> doc[idx].Label, stage |-> "WriteProperties",
                                 exc |-> "AttributeError"])
    /\ pc' = "crashed"
    /\ UNCHANGED <<dirs, csv, log, args, idx, locals, envFail, last, doc0>>

\* Lines 288-305 (the placement csv and the lua file of the object, and the next
\* turn of the loop) follow a statement that always raises: no run reaches them.
LoopTailUnreachable ==
    /\ idx = 1
    /\ csv = <<>>
    /\ DOMAIN obj_found # {} => pc = "crashed"
    /\ pc = "done" => doc0 = <<>>

\* line 269: the for loop has no object left.
EndOfLoop ==
    /\ pc = "loop"
    /\ idx > Len(doc)
    /\ pc' = "done"
    /\ UNCHANGED <<doc, dirs, files, csv, log, args, idx, obj_found, locals, stages, envFail, last, doc0>>

Next ==
    \/ ExportFull
    \/ SimplifyFull
    \/ ConvexHull
    \/ SimplifyHull
    \/ WriteProperties
    \/ EndOfLoop

Spec == Init /\ [][Next]_vars

----------------------------------------------------------------------------
(* SpecDedup: get_unique_objects applied to a document *)

InitDedup ==
    /\ doc \in SeqsUpTo([Label : Labels, Placement : {Identity, [Base |-> <<1, 0, 0>>, rot |-> 1]},
                         Shape : 1..MaxGeom], MaxDoc)
    /\ dirs = {}
    /\ files = {}
    /\ csv = <<>>
    /\ log = <<>>
    /\ pc = "idle"
    /\ args = None
    /\ idx = 0
    /\ obj_found = <<>>
    /\ locals = None
    /\ stages = <<>>
    /\ envFail = FALSE
    /\ last = NoCall
    /\ doc0 = doc

CallGetUniqueObjects ==
    /\ pc = "idle"
    /\ last' = [fn |-> "get_unique_objects", a |-> NoArgs, before |-> World,
                exc |-> "none", ret |-> get_unique_objects(doc)]
    /\ pc' = "returned"
    /\ UNCHANGED <<doc, dirs, files, csv, log, MainIdle, envFail>>

NextDedup == CallGetUniqueObjects

SpecDedup == InitDedup /\ [][NextDedup]_vars

----------------------------------------------------------------------------
(* Claims checked under SpecApi *)

ExportCalls == {"make_STL", "make_OBJ"}
EngineCalls == {"run_script_on_mesh", "make_simplified_STL", "make_convex_hull"}

\* C1: after make_STL / make_OBJ has returned or raised, in any frame mode, the
\* shape's Placement is the one it had before the call.
C1_FrameRestoration ==
    last.fn \in ExportCalls => doc[1].Placement = last.before.doc[1].Placement

\* C2: when meshlabserver has exited with a non-zero code, the call that invoked
\* it ends in an exception, with verbose = False as with verbose = True.
C2_EngineFailureRaises ==
    (last.fn \in EngineCalls /\ \E i \in 1..Len(log) : log[i].code # 0) => last.exc # "none"

\* The output path of a make_simplified_STL call with arguments a.
ExpectedOut(a) ==
    IF a.omesh_path = None THEN Path(Folder(a.imesh_path), "simple.stl") ELSE a.omesh_path

IsSimplifyN(n) == last.fn = "make_simplified_STL" /\ last.a.n # None /\ last.a.n[1] >= n

\* C3 as stated: make_simplified_STL with n_iterations = N >= 2 invokes the engine
\* exactly N times, invocation 1 reads the input path and writes a path distinct
\* from it, and invocations 2..N read and write that output path.
C3_PathDisciplineAsStated ==
    (IsSimplifyN(2) /\ last.exc = "none") =>
        /\ Len(log) = last.a.n[1]
        /\ log[1].i = last.a.imesh_path
        /\ log[1].o # log[1].i
        /\ \A k \in 2..Len(log) : log[k].i = log[1].o /\ log[k].o = log[1].o

\* C3 amended: a make_simplified_STL call with n_iterations = N >= 2 invokes the
\* engine at most N times, and exactly N times when it returns; invocation 1 reads
\* the input path and writes the output path (omesh_path, else simple.stl beside
\* the input), which differs from the input path unless the caller passed the
\* input path as omesh_path or the input is that simple.stl; invocations 2..N read
\* and write the output path, which is what the call returns.
C3_PathDiscipline ==
    IsSimplifyN(2) =>
        LET out == ExpectedOut(last.a)
        IN  /\ Len(log) <= last.a.n[1]
            /\ last.exc = "none" => (Len(log) = last.a.n[1] /\ last.ret = out)
            /\ \A k \in 1..Len(log) :
                 /\ log[k].o = out
                 /\ log[k].i = IF k = 1 THEN last.a.imesh_path ELSE out
            /\ Len(log) >= 1 =>
                 ((log[1].o = log[1].i) <=>
                    \/ last.a.omesh_path = last.a.imesh_path
                    \/ (last.a.omesh_path = None /\ last.a.imesh_path[2] = "simple.stl"))

\* C3 witness: a call with N = 3 has returned after three invocations, the first
\* of them already in place, one of them having failed.
C3_Witness ==
    /\ IsSimplifyN(3)
    /\ last.exc = "none"
    /\ Len(log) = 3
    /\ log[1].o = log[1].i
    /\ log[2].code # 0

\* C4: make_simplified_STL with n_iterations <= 0 invokes the engine zero times,
\* creates or overwrites no file and returns the input path.
C4_SimplifyNoOp ==
    (last.fn = "make_simplified_STL" /\ last.a.n # None /\ last.a.n[1] <= 0 /\ ~envFail) =>
        /\ log = <<>>
        /\ files = last.before.files
        /\ last.exc = "none"
        /\ last.ret = last.a.imesh_path

\* C6: csv2placement applied to the file placement2csv wrote for the list X
\* succeeds and returns X.
C6_RoundTrip ==
    last.fn = "csv2placement" => (last.exc = "none" /\ last.ret = last.a.written)

----------------------------------------------------------------------------
(* Claims checked under Spec *)

RunOver == pc \in {"done", "crashed"}

Occurrences(l) == {i \in 1..Len(doc0) : doc0[i].Label = l}

PlacementFile(l) == Path(MeshFolder(l), "placement.csv")

\* The records of a placements file: the rows that open one.
Records(path) ==
    IF path \in DOMAIN csv
    THEN Cardinality({k \in 1..Len(csv[path]) : csv[path][k][1] = "Placement"})
    ELSE 0

\* C5: the groups partition the occurrences, so that when the run is over each
\* group's placements file holds one record for each occurrence of the group,
\* none being dropped.
C5_DedupPartition ==
    (RunOver /\ ~envFail) =>
        \A l \in LabelsOf(doc0) : Records(PlacementFile(l)) = Cardinality(Occurrences(l))

Header == <<"Label", "x [m]", "y [m]", "z [m]", "axis_x", "axis_y", "axis_z", "angle">>

DataRow(o) == <<o.Label, o.Placement.Base[1], o.Placement.Base[2], o.Placement.Base[3],
                0, 0, 1, o.Placement.rot>>

RECURSIVE DataRows(_, _)
DataRows(objs, l) ==
    IF objs = <<>> THEN <<>>
    ELSE (IF Head(objs).Label = l THEN <<DataRow(Head(objs))>> ELSE <<>>) \o DataRows(Tail(objs), l)

\* C7: once the pipeline has processed a group, its placements file is the header
\* row followed by one row per occurrence of the group, in document order, each
\* with the occurrence's label and the placement it had when the document was read.
C7_PlacementsFile ==
    RunOver =>
        \A l \in DOMAIN obj_found :
            /\ PlacementFile(l) \in DOMAIN csv
            /\ csv[PlacementFile(l)] = <<Header>> \o DataRows(doc0, l)

Started(l) == \E k \in 1..Len(stages) : stages[k].label = l /\ stages[k].stage = "ExportFull"

\* C8: a stage that fails for one part does not end the run: when the run is over
\* every unique part of the document has been taken up.
C8_FailureIsolation ==
    RunOver => \A l \in LabelsOf(doc0) : Started(l)

RECURSIVE StagesOf(_, _)
StagesOf(st, l) ==
    IF st = <<>> THEN <<>>
    ELSE (IF Head(st).label = l /\ Head(st).exc = "none" THEN <<Head(st).stage>> ELSE <<>>)
         \o StagesOf(Tail(st), l)

\* C9: for every unique part the stages ExportFull, SimplifyFull, ConvexHull,
\* SimplifyHull, WritePlacements run once each, in this order; the hull is made
\* from the full mesh and simplified in place, and the full, simplified and hull
\* meshes are three distinct files.
C9_StageOrder ==
    (RunOver /\ ~envFail) =>
        \A l \in LabelsOf(doc0) :
            /\ StagesOf(stages, l) =
                 <<"ExportFull", "SimplifyFull", "ConvexHull", "SimplifyHull", "WritePlacements">>
            /\ Cardinality({Path(MeshFolder(l), n) : n \in {"full.stl", "simple.stl", "chull.stl"}}
                           \cap files) = 3

----------------------------------------------------------------------------
(* Claims checked under SpecDedup *)

Unique == last.ret

\* The groups an occurrence belongs to: those whose representative has its Label.
GroupsOf(i) == {g \in 1..Len(Unique) : Unique[g].Label = doc[i].Label}

\* The occurrences whose Label no earlier occurrence has.
FirstSeen == {i \in 1..Len(doc) : \A j \in 1..(i - 1) : doc[j].Label # doc[i].Label}

----------------------------------------------------------------------------
(* step_to_meshes_fusion360.py: rotation_to_axis_angle, transform_to_xyz_angle_axis *)

\* A float is a fixed-point number with the four decimals of the literal 0.7071:
\* the integer n stands for n / Scale.  An angle is given by its cosine (acos is
\* one-to-one on [-1, 1]).
Scale == 10000

Abs(a) == IF a < 0 THEN 0 - a ELSE a

\* Integer quotient rounded towards zero.
Quot(a, b) == IF (a < 0) = (b < 0) THEN Abs(a) \div Abs(b) ELSE 0 - (Abs(a) \div Abs(b))

\* a / b and math.sqrt(a) on fixed-point numbers
FDiv(a, b) == Quot(a * Scale, b)

RECURSIVE SqrtBetween(_, _, _)
SqrtBetween(v, lo, hi) ==
    IF lo >= hi THEN lo
    ELSE LET mid == (lo + hi + 1) \div 2
         IN  IF mid * mid <= v THEN SqrtBetween(v, mid, hi) ELSE SqrtBetween(v, lo, mid - 1)

ISqrt(v) == SqrtBetween(v, 0, 4 * Scale)

FSqrt(a) == ISqrt(a * Scale)

\* a < k * epsilon, with epsilon = 0.00001 a tenth of the last decimal
LtEps(a, k) == 10 * a < k

Angle0 == [cos |-> Scale]           \* 0.
AnglePi == [cos |-> 0 - Scale]      \* math.pi

AxisAngle(angle, x, y, z) == [exc |-> "none", angle |-> angle, x |-> x, y |-> y, z |-> z]

\* The 180 degree singularity with r01+r10, r02+r20 and r12+r21 halved instead of
\* quartered.
HalfTurn_halved(r) ==
    LET xx == Quot(r[1][1] + Scale, 2)
        yy == Quot(r[2][2] + Scale, 2)
        zz == Quot(r[3][3] + Scale, 2)
        xy == Quot(r[1][2] + r[2][1], 2)
        xz == Quot(r[1][3] + r[3][1], 2)
        yz == Quot(r[2][3] + r[3][2], 2)
    IN  IF xx > yy /\ xx > zz
        THEN IF LtEps(xx, 1)
             THEN AxisAngle(AnglePi, 0, 7071, 7071)
             ELSE LET x == FSqrt(xx) IN AxisAngle(AnglePi, x, FDiv(xy, x), FDiv(xz, x))
        ELSE IF yy > zz
        THEN IF LtEps(yy, 1)
             THEN AxisAngle(AnglePi, 7071, 0, 7071)
             ELSE LET y == FSqrt(yy) IN AxisAngle(AnglePi, FDiv(xy, y), y, FDiv(yz, y))
        ELSE IF LtEps(zz, 1)
             THEN AxisAngle(AnglePi, 7071, 7071, 0)
             ELSE LET z == FSqrt(zz) IN AxisAngle(AnglePi, FDiv(xz, z), FDiv(yz, z), z)

\* The 180 degree singularity: the else branch of the symmetric case.
HalfTurn(r) ==
    LET xx == Quot(r[1][1] + Scale, 2)
        yy == Quot(r[2][2] + Scale, 2)
        zz == Quot(r[3][3] + Scale, 2)
        xy == Quot(r[1][2] + r[2][1], 4)
        xz == Quot(r[1][3] + r[3][1], 4)
        yz == Quot(r[2][3] + r[3][2], 4)
    IN  IF xx > yy /\ xx > zz
        THEN IF LtEps(xx, 1)
             THEN AxisAngle(AnglePi, 0, 7071, 7071)
             ELSE LET x == FSqrt(xx) IN AxisAngle(AnglePi, x, FDiv(xy, x), FDiv(xz, x))
        ELSE IF yy > zz
        THEN IF LtEps(yy, 1)
             THEN AxisAngle(AnglePi, 7071, 0, 7071)
             ELSE LET y == FSqrt(yy) IN AxisAngle(AnglePi, FDiv(xy, y), y, FDiv(yz, y))
        ELSE IF LtEps(zz, 1)
             THEN AxisAngle(AnglePi, 7071, 7071, 0)
             ELSE LET z == FSqrt(zz) IN AxisAngle(AnglePi, FDiv(xz, z), FDiv(yz, z), z)

\* rotation_to_axis_angle(r00, ..., r22), r[i + 1][j + 1] being rij.  Line 19 takes
\* abs of the comparison r01+r10 < 2*epsilon, which is the comparison itself.
rotation_to_axis_angle(r) ==
    LET d21 == r[3][2] - r[2][3]
        d02 == r[1][3] - r[3][1]
        d10 == r[2][1] - r[1][2]
    IN  IF LtEps(Abs(d10), 1) /\ LtEps(Abs(d02), 1) /\ LtEps(Abs(d21), 1)
        THEN IF /\ LtEps(r[1][2] + r[2][1], 2)
                /\ LtEps(Abs(r[1][3] + r[3][1]), 2)
                /\ LtEps(Abs(r[2][3] + r[3][2]), 1)
                /\ LtEps(Abs(r[1][1] + r[2][2] + r[3][3] - 3 * Scale), 1)
             THEN AxisAngle(Angle0, Scale, 0, 0)            \* return 0.,1.,0.,0.
             ELSE HalfTurn(r)
        ELSE LET s0 == ISqrt(d21 * d21 + d02 * d02 + d10 * d10)
                 s  == IF LtEps(Abs(s0), 1) THEN Scale ELSE s0
                 c  == Quot(r[1][1] + r[2][2] + r[3][3] - Scale, 2)
             IN  IF Abs(c) > Scale
                 THEN [exc |-> "ValueError", angle |-> Angle0, x |-> 0, y |-> 0, z |-> 0]
                 ELSE AxisAngle([cos |-> c], FDiv(d21, s), FDiv(d02, s), FDiv(d10, s))

\* transform_to_xyz_angle_axis(transf): transf.getCell(i, j) is transf.rot[i + 1][j + 1]
\* for j < 3 and transf.t[i + 1] for j = 3.
transform_to_xyz_angle_axis(transf) ==
    LET aa == rotation_to_axis_angle(transf.rot)
    IN  [exc |-> aa.exc,
         ret |-> [x |-> transf.t[1], y |-> transf.t[2], z |-> transf.t[3],
                  angle |-> aa.angle, axis_x |-> aa.x, axis_y |-> aa.y, axis_z |-> aa.z]]

----------------------------------------------------------------------------
(* SpecEncode: transform_to_xyz_angle_axis applied to a transform *)

MatMul(a, b) ==
    [i \in 1..3 |-> [j \in 1..3 |->
        Quot(a[i][1] * b[1][j] + a[i][2] * b[2][j] + a[i][3] * b[3][j], Scale)]]

IdentityMatrix == <<<<Scale, 0, 0>>, <<0, Scale, 0>>, <<0, 0, Scale>>>>

Det(m) ==
    Quot(m[1][1] * Quot(m[2][2] * m[3][3] - m[2][3] * m[3][2], Scale)
       - m[1][2] * Quot(m[2][1] * m[3][3] - m[2][3] * m[3][1], Scale)
       + m[1][3] * Quot(m[2][1] * m[3][2] - m[2][2] * m[3][1], Scale), Scale)

\* A valid rotation matrix: orthonormal rows, determinant 1.
IsRotation(m) ==
    /\ \A i, j \in 1..3 :
         m[i][1] * m[j][1] + m[i][2] * m[j][2] + m[i][3] * m[j][3]
           = IF i = j THEN Scale * Scale ELSE 0
    /\ Det(m) = Scale

\* The 24 rotations that map the coordinate axes to one another.
CubeRotations ==
    {m \in [1..3 -> [1..3 -> {0 - Scale, 0, Scale}]] :
        /\ \A i \in 1..3 : Cardinality({j \in 1..3 : m[i][j] # 0}) = 1
        /\ IsRotation(m)}

\* The rotations of cosine 0.6 and sine 0.8 about the x and the z axis.
TurnX == <<<<Scale, 0, 0>>, <<0, 6000, -8000>>, <<0, 8000, 6000>>>>
TurnZ == <<<<6000, -8000, 0>>, <<8000, 6000, 0>>, <<0, 0, Scale>>>>

RECURSIVE Turns(_)
Turns(n) ==
    IF n = 0 THEN {IdentityMatrix}
    ELSE LET shorter == Turns(n - 1)
         IN  shorter \cup {MatMul(m, t) : m \in shorter, t \in {TurnX, TurnZ}}

Rotations == {m \in {MatMul(c, t) : c \in CubeRotations, t \in Turns(MaxTurns)} : IsRotation(m)}

Transforms == [rot : Rotations, t : {<<0, 0, 0>>, <<Scale, 0 - Scale, 5000>>}]

InitEncode ==
    /\ doc = <<>>
    /\ dirs = {}
    /\ files = {}
    /\ csv = <<>>
    /\ log = <<>>
    /\ pc = "idle"
    /\ args = None
    /\ idx = 0
    /\ obj_found = <<>>
    /\ locals = None
    /\ stages = <<>>
    /\ envFail = FALSE
    /\ last \in {[NoCall EXCEPT !.a = [transf |-> tr]] : tr \in Transforms}
    /\ doc0 = doc

\* line 115: transform_to_xyz_angle_axis(occ.transform)
CallTransformToXyzAngleAxis ==
    /\ pc = "idle"
    /\ LET r == transform_to_xyz_angle_axis(last.a.transf)
       IN  last' = [fn |-> "transform_to_xyz_angle_axis", a |-> last.a, before |-> None,
                    exc |-> r.exc, ret |-> r.ret]
    /\ pc' = "returned"
    /\ UNCHANGED <<doc, dirs, files, csv, log, MainIdle, envFail>>

NextEncode == CallTransformToXyzAngleAxis

SpecEncode == InitEncode /\ [][NextEncode]_vars

----------------------------------------------------------------------------
(* Claims checked under SpecEncode *)

Encoded == last.fn = "transform_to_xyz_angle_axis"

\* Unit length up to the rounding of the last decimals: | |axis|^2 - 1 | <= 0.001
UnitTol == Scale * (Scale \div 1000)

IsUnit(x, y, z) == Abs(x * x + y * y + z * z - Scale * Scale) <= UnitTol

====
